---- MODULE Spec2Model ----
(***************************************************************************)
(* Model of crm_integration_xblock.CrmIntegration: the two JSON handlers   *)
(* send_crm_data / delete_crm_data, the initialisation step                *)
(* _init_fs_class, the token exchange generate_token and the identity      *)
(* helper get_anonymous_id_comp_crm.                                       *)
(*                                                                         *)
(* A handler runs synchronously from start to end, so each handler is one  *)
(* action.  What it did on the way (HTTP call, tracking events, identity   *)
(* lookup, adapter construction, adapter dispatch) is recorded, in program *)
(* order, in the variable log, which holds the trace of the last           *)
(* invocation only.                                                        *)
(*                                                                         *)
(* Python values: None is "None", True/False are "True"/"False".  JSON     *)
(* text is a record [json, pairs]: json says whether the text parses, and  *)
(* pairs is the sequence of <<key, literal>> members of the object, a      *)
(* literal being true, false or a quoted string.                           *)
(***************************************************************************)
EXTENDS Integers, Sequences, FiniteSets, TLC

\* Number of distinct access tokens the token endpoint hands out.
NumAccessTokens == 2

None == "None"
PyTrue == "True"
PyFalse == "False"

\* The status the code compares the token response with.
HTTP_OK == 200
\* The status of the envelope returned when initialisation is skipped.
NO_INIT_STATUS == 204

(***************************************************************************)
(* Values of the environment                                               *)
(***************************************************************************)

\* The adapter registry: name -> adapter class.
BACKENDS == {"generic", "varkey"}

\* Names a course author can store in the backend_name field.
BackendNames == BACKENDS \cup {"other"}

\* Two sets of stored credentials, different in every field.
CredsA ==
  [url |-> "https://login.example/token", client_id |-> "cidA",
   client_secret |-> "secretA", username |-> "userA", password |-> "pwA",
   security_token |-> "stA"]

CredsB ==
  [url |-> "https://login.example/token", client_id |-> "cidB",
   client_secret |-> "secretB", username |-> "userB", password |-> "pwB",
   security_token |-> "stB"]

CredentialFields == {"client_id", "client_secret", "username", "password", "security_token"}

\* The block's content-scoped fields.
Configs ==
  { [backend_name |-> b, url |-> c.url, client_id |-> c.client_id,
     client_secret |-> c.client_secret, username |-> c.username,
     password |-> c.password, security_token |-> c.security_token]
    : b \in BackendNames, c \in {CredsA} }

\* The same block with the other set of credentials stored.
OtherCredentials(cfg) ==
  LET c == IF cfg.client_id = CredsA.client_id THEN CredsB ELSE CredsA
  IN  [cfg EXCEPT !.client_id = c.client_id, !.client_secret = c.client_secret,
                  !.username = c.username, !.password = c.password,
                  !.security_token = c.security_token]

(***************************************************************************)
(* Request envelopes                                                       *)
(***************************************************************************)

Methods == {"create"}
Initials == {"lead"}
RequestKeys == {"method", "initial", "no_init"}
KeyOrder == <<"method", "initial", "no_init">>

ValuesOf(k) ==
  IF k = "method" THEN Methods
  ELSE IF k = "initial" THEN Initials
  ELSE {PyTrue, PyFalse}

PyValues == Methods \cup Initials \cup {PyTrue, PyFalse}

\* Values the token endpoint puts in its body.
AccessTokens == { "tok" \o ToString(i) : i \in 1..NumAccessTokens }
InstanceUrls == {"https://inst.example"}


\* The structured mappings a client can submit.
Mappings ==
  { m \in UNION { [K -> PyValues] : K \in SUBSET RequestKeys } :
      \A k \in DOMAIN m : m[k] \in ValuesOf(k) }

\* dict.get(key, default)
Get(d, k, default) == IF k \in DOMAIN d THEN d[k] ELSE default

\* Python truth value of a request field.
Truthy(v) == v /= PyFalse /\ v /= None

\* The JSON literal of a Python value: true, false or "chars".
JsonLiteral(v) ==
  IF v = PyTrue THEN [kind |-> "true", chars |-> ""]
  ELSE IF v = PyFalse THEN [kind |-> "false", chars |-> ""]
  ELSE [kind |-> "string", chars |-> v]

\* The Python value of a JSON literal.
JsonValue(l) ==
  IF l.kind = "true" THEN PyTrue
  ELSE IF l.kind = "false" THEN PyFalse
  ELSE l.chars

\* The string-encoded form of a mapping, as the client writes it.
json_dumps(m) ==
  LET ks == SelectSeq(KeyOrder, LAMBDA k : k \in DOMAIN m)
  IN  [json |-> TRUE,
       pairs |-> [i \in 1..Len(ks) |-> <<ks[i], JsonLiteral(m[ks[i]])>>]]

\* json.loads of a text that parses: the last member with a key wins.
json_loads(text) ==
  LET ps == text.pairs
      keys == { ps[i][1] : i \in 1..Len(ps) }
      last(k) == CHOOSE i \in 1..Len(ps) :
                   /\ ps[i][1] = k
                   /\ \A j \in 1..Len(ps) : ps[j][1] = k => j <= i
  IN  [k \in keys |-> JsonValue(ps[last(k)][2])]

\* What the json_handler decorator hands to the handler: the decoded body,
\* a dict or a str.
Requests ==
  { [type |-> "dict", value |-> m] : m \in Mappings }
  \cup
  { [type |-> "str", value |-> json_dumps(m)] : m \in Mappings }

(***************************************************************************)
(* The hosting runtime and the identity store                              *)
(***************************************************************************)

Users == {"u1", "u2"}

\* The user whose session the block runs in.
SessionUser == "u1"
CourseIds == {"course-v1:org+c1+r1", "course-v1:org+c2+r1"}

\* The course the block is placed in.
BlockCourse == "course-v1:org+c1+r1"

\* runtime.anonymous_student_id of each user's session, and the ids recorded
\* for a user under the compatibility key.
AnonIds == { [of |-> u, kind |-> k] : u \in Users, k \in {"session", "compat"} }
SessionId(u) == [of |-> u, kind |-> "session"]
CompatId(u) == [of |-> u, kind |-> "compat"]

\* runtime.get_real_user
get_real_user(anonymous_student_id) == anonymous_student_id.of

\* The runtimes a handler can run in (is_author_mode is set per invocation).
Runtimes ==
  { [anonymous_student_id |-> SessionId(SessionUser), course_id |-> BlockCourse,
     is_author_mode |-> FALSE] }

\* Variant of the operator below without the suffix.
compat_course_id_plain(course_id_str) == course_id_str

\* CourseKey.from_string('{}_CRM_XBLOCK'.format(course_id_str))
compat_course_id(course_id_str) == course_id_str \o "_CRM_XBLOCK"

\* Rows of the platform's AnonymousUserId table.  The platform records each
\* user's session id under the course key itself.
SessionRows ==
  { [user |-> u, course_id |-> c, anonymous_user_id |-> SessionId(u)]
    : u \in Users, c \in CourseIds }

\* Ids recorded under the key "<course>_CRM_XBLOCK", which a user may or may
\* not have.
CompatRows ==
  { [user |-> u, course_id |-> c \o "_CRM_XBLOCK", anonymous_user_id |-> CompatId(u)]
    : u \in Users, c \in CourseIds }

\* The session user's compatibility row for the block's course.
SessionCompatRow ==
  [user |-> SessionUser, course_id |-> BlockCourse \o "_CRM_XBLOCK",
   anonymous_user_id |-> CompatId(SessionUser)]

\* The stores the handlers run against: every other compatibility row is
\* there, the session user's row for the block's course may be.
Stores ==
  { SessionRows \cup (CompatRows \ {SessionCompatRow}) \cup rows
    : rows \in SUBSET {SessionCompatRow} }

\* Every session and every store, for the identity helper on its own.
AllRuntimes ==
  { [anonymous_student_id |-> SessionId(u), course_id |-> c, is_author_mode |-> FALSE]
    : u \in Users, c \in CourseIds }

AllStores == { SessionRows \cup rows : rows \in SUBSET CompatRows }

\* user.anonymoususerid_set.filter(course_id=...)
anonymoususerid_set(store, user, course_id) ==
  { r \in store : r.user = user /\ r.course_id = course_id }

(***************************************************************************)
(* The token endpoint                                                      *)
(***************************************************************************)

\* Statuses the token endpoint answers with.
TokenStatuses == {HTTP_OK, 204, 401}

TokenBody(access_token, instance_url) ==
  [json |-> TRUE,
   pairs |-> << <<"access_token", JsonLiteral(access_token)>>,
                <<"instance_url", JsonLiteral(instance_url)>> >>]

\* A JSON body without instance_url, and a body that is not JSON.
BodyWithoutUrl == [json |-> TRUE, pairs |-> << <<"access_token", JsonLiteral("tok1")>> >>]
BodyNotJson == [json |-> FALSE, pairs |-> << >>]
ErrorBody == [json |-> TRUE, pairs |-> << <<"error", JsonLiteral("invalid_grant")>> >>]

\* What requests.request does: it returns a response or raises.
TokenReplies ==
  { [raised |-> None, status_code |-> HTTP_OK, text |-> TokenBody(t, u)]
    : t \in AccessTokens, u \in InstanceUrls }
  \cup
  { [raised |-> None, status_code |-> HTTP_OK, text |-> b] : b \in {BodyWithoutUrl, BodyNotJson} }
  \cup
  { [raised |-> None, status_code |-> s, text |-> ErrorBody] : s \in TokenStatuses \ {HTTP_OK} }
  \cup
  { [raised |-> "ConnectionError", status_code |-> 0, text |-> BodyNotJson] }

\* No token request was made.
NoReply == [raised |-> None, status_code |-> 0, text |-> BodyNotJson]

(***************************************************************************)
(* The backend adapters (salesforce_tasks.SalesForce and                   *)
(* varkey_validations.SalesForceVarkey)                                    *)
(***************************************************************************)

\* The instance has no fs_class attribute yet.
NoAdapter ==
  [class |-> None, access_token |-> None, instance_url |-> None,
   username |-> [of |-> None, kind |-> None],
   method |-> None, initial |-> None, made_in |-> None]

\* BACKENDS[backend_name](access_token, instance_url, username, method, initial):
\* the adapter keeps its constructor arguments; made_in tells the object made
\* by the running invocation ("this") from one left by an earlier one.
NewAdapter(backend_name, access_token, instance_url, username, method, initial) ==
  [class |-> backend_name, access_token |-> access_token, instance_url |-> instance_url,
   username |-> username, method |-> method, initial |-> initial, made_in |-> "this"]

\* The adapter left on the instance, seen from the next invocation.
Earlier(fs) == IF fs.class = None THEN fs ELSE [fs EXCEPT !.made_in = "earlier"]

\* What validate / _delete_data return: the adapter's own envelope.
AdapterResults ==
  { [status_code |-> 200, success |-> TRUE, message |-> "adapter: done"],
    [status_code |-> 400, success |-> FALSE, message |-> "adapter: rejected"] }

(***************************************************************************)
(* Results of the methods: what was returned or raised, the trace so far   *)
(* and the instance attribute fs_class                                     *)
(***************************************************************************)

NoValue == [nothing |-> TRUE]

Return(value, log, fs) ==
  [out |-> [raised |-> None, value |-> value], log |-> log, fs_class |-> fs]

Raise(exc, log, fs) ==
  [out |-> [raised |-> exc, value |-> NoValue], log |-> log, fs_class |-> fs]

\* tracking.emit(name, weight); arg is what is formatted into the name.
emit(log, name, arg, weight) ==
  Append(log, [kind |-> "emit", name |-> name, arg |-> arg, weight |-> weight])

\* The envelope of a skipped initialisation.
NoInitEnvelope(self) ==
  [status_code |-> NO_INIT_STATUS,
   message |-> "No initialization has been run. Token not generated",
   success |-> FALSE]

\* Variant of the envelope below that names the stored username.
TokenFailedEnvelope_naming_user(self, token) ==
  [status_code |-> token.status_code,
   message |-> "Token not generated for " \o self.username,
   success |-> FALSE]

\* The envelope of a failed token exchange.
TokenFailedEnvelope(self, token) ==
  [status_code |-> token.status_code,
   message |-> "Token not generated",
   success |-> FALSE]

(***************************************************************************)
(* generate_token                                                          *)
(***************************************************************************)

\* The password-grant form body, in the order of the OrderedDict.
token_payload(client_id, client_secret, username, password, security_token) ==
  << <<"grant_type", "password">>,
     <<"client_id", client_id>>,
     <<"client_secret", client_secret>>,
     <<"username", username>>,
     <<"password", password \o security_token>> >>

\* One POST to the token URL; reply is what the endpoint (or the transport)
\* does with it.  Returns [raised, response, log].
generate_token(log, url, client_id, client_secret, username, password, security_token, reply) ==
  LET payload == token_payload(client_id, client_secret, username, password, security_token)
      sent == Append(log, [kind |-> "http", method |-> "POST", url |-> url,
                           data |-> payload,
                           content_type |-> "application/x-www-form-urlencoded"])
  IN  IF reply.raised /= None
      THEN [raised |-> reply.raised, response |-> reply, log |-> sent]
      ELSE IF reply.status_code = HTTP_OK
      THEN [raised |-> None, response |-> reply,
            log |-> emit(sent, "crm_integration_xblock.generate_token.success", None, 10)]
      ELSE [raised |-> None, response |-> reply,
            log |-> emit(sent, "crm_integration_xblock.generate_token.error", None, 30)]

(***************************************************************************)
(* get_anonymous_id_comp_crm                                               *)
(***************************************************************************)

\* Returns [raised, value, log]: the compatibility id recorded for the user,
\* or the current session id when the store has no such row.
get_anonymous_id_comp_crm(rt, store, log) ==
  LET current_anonymous_student_id == rt.anonymous_student_id
      user == get_real_user(current_anonymous_student_id)
      course_id_str == rt.course_id
      compat == compat_course_id(course_id_str)
      rows == anonymoususerid_set(store, user, compat)
      looked == Append(log, [kind |-> "identity", user |-> user, course_id |-> compat])
  IN  IF rows = {}
      THEN [raised |-> None, value |-> current_anonymous_student_id, log |-> looked]
      ELSE IF Cardinality(rows) > 1
      THEN [raised |-> "MultipleObjectsReturned", value |-> current_anonymous_student_id,
            log |-> looked]
      ELSE [raised |-> None, value |-> (CHOOSE r \in rows : TRUE).anonymous_user_id,
            log |-> looked]

(***************************************************************************)
(* _init_fs_class                                                          *)
(***************************************************************************)

\* hasattr(self.xmodule_runtime, 'is_author_mode')
is_studio(rt) == rt.is_author_mode

\* Variant of the test below that lets every status under 400 through.
token_rejected_lenient(token) == token.status_code >= 400

\* The test on the token response's status.
token_rejected(token) == token.status_code /= HTTP_OK

\* json.loads(token.text) and the two subscripts: [raised, access_token, instance_url].
parse_token(token) ==
  IF ~token.text.json
  THEN [raised |-> "JSONDecodeError", access_token |-> None, instance_url |-> None]
  ELSE LET response_salesforce == json_loads(token.text)
       IN  IF "access_token" \notin DOMAIN response_salesforce
              \/ "instance_url" \notin DOMAIN response_salesforce
           THEN [raised |-> "KeyError", access_token |-> None, instance_url |-> None]
           ELSE [raised |-> None,
                 access_token |-> response_salesforce["access_token"],
                 instance_url |-> response_salesforce["instance_url"]]

\* Variant of the operator below with the two fields exchanged.
request_fields_swapped(data) ==
  LET d == IF data.type = "str" THEN json_loads(data.value) ELSE data.value
  IN  [method |-> Get(d, "initial", None), initial |-> Get(d, "method", None)]

\* The request's method and initial payload.
request_fields(data) ==
  LET d == IF data.type = "str" THEN json_loads(data.value) ELSE data.value
  IN  [method |-> Get(d, "method", None), initial |-> Get(d, "initial", None)]

\* From the request parsing to the return of the success status.
build_fs_class(self, data, parsed, username, log, fs) ==
  LET f == request_fields(data)
  IN  IF self.backend_name \notin BACKENDS
      THEN Raise("KeyError", log, fs)
      ELSE LET adapter == NewAdapter(self.backend_name, parsed.access_token,
                                     parsed.instance_url, username, f.method,
                                     f.initial)
               built == Append(log, [kind |-> "construct", adapter |-> adapter])
           IN  Return([status_code |-> HTTP_OK],
                      emit(built, "crm_integration_xblock.initialization.{}.success",
                           self.backend_name, 10),
                      adapter)

\* Variant of the operator below with the identity looked up before the
\* token is requested.
exchange_and_build_identity_first(self, rt, store, data, reply, log, fs) ==
  LET id == get_anonymous_id_comp_crm(rt, store, log)
      tok == generate_token(id.log, self.url, self.client_id, self.client_secret,
                            self.username, self.password, self.security_token, reply)
      token == tok.response
  IN  IF id.raised /= None THEN Raise(id.raised, id.log, fs)
      ELSE IF tok.raised /= None THEN Raise(tok.raised, tok.log, fs)
      ELSE IF token_rejected(token)
      THEN Return(TokenFailedEnvelope(self, token),
                  emit(tok.log, "crm_integration_xblock.initialization.{}.no_token_generated",
                       self.backend_name, 10),
                  fs)
      ELSE LET parsed == parse_token(token)
           IN  IF parsed.raised /= None THEN Raise(parsed.raised, tok.log, fs)
               ELSE build_fs_class(self, data, parsed, id.value, tok.log, fs)

\* The part of _init_fs_class after the skip test.
exchange_and_build(self, rt, store, data, reply, log, fs) ==
  LET tok == generate_token(log, self.url, self.client_id, self.client_secret,
                            self.username, self.password, self.security_token, reply)
      token == tok.response
  IN  IF tok.raised /= None THEN Raise(tok.raised, tok.log, fs)
      ELSE IF token_rejected(token)
      THEN Return(TokenFailedEnvelope(self, token),
                  emit(tok.log, "crm_integration_xblock.initialization.{}.no_token_generated",
                       self.backend_name, 10),
                  fs)
      ELSE LET parsed == parse_token(token)
           IN  IF parsed.raised /= None THEN Raise(parsed.raised, tok.log, fs)
               ELSE LET id == get_anonymous_id_comp_crm(rt, store, tok.log)
                    IN  IF id.raised /= None THEN Raise(id.raised, id.log, fs)
                        ELSE build_fs_class(self, data, parsed, id.value, id.log, fs)

\* data.get on a str raises AttributeError before anything else happens.
init_fs_class(self, rt, store, data, reply, fs) ==
  IF data.type /= "dict"
  THEN Raise("AttributeError", << >>, fs)
  ELSE LET data_no_init == Get(data.value, "no_init", PyFalse)
       IN  IF is_studio(rt) \/ Truthy(data_no_init)
           THEN Return(NoInitEnvelope(self),
                       emit(<< >>, "crm_integration_xblock.initialization.no_init", None, 10),
                       fs)
           ELSE exchange_and_build(self, rt, store, data, reply, << >>, fs)

(***************************************************************************)
(* send_crm_data and delete_crm_data                                       *)
(***************************************************************************)

\* Variant of the test below that only excludes the skip status.
init_succeeded_unless_skipped(crm_data) == crm_data.status_code /= NO_INIT_STATUS

\* The handlers' test on what _init_fs_class returned.
init_succeeded(crm_data) == crm_data.status_code = HTTP_OK

\* self.fs_class.<op>(data): the adapter on the instance attribute answers.
dispatch(op, data, adapter_result, r) ==
  IF r.fs_class = NoAdapter
  THEN Raise("AttributeError", r.log, r.fs_class)
  ELSE Return(adapter_result,
              Append(r.log, [kind |-> "dispatch", op |-> op, adapter |-> r.fs_class,
                             data |-> data, result |-> adapter_result]),
              r.fs_class)

handler(op, self, rt, store, data, reply, adapter_result, fs) ==
  LET r == init_fs_class(self, rt, store, data, reply, fs)
  IN  IF r.out.raised /= None THEN r
      ELSE IF init_succeeded(r.out.value)
      THEN dispatch(op, data, adapter_result, r)
      ELSE r

(***************************************************************************)
(* The state of one block instance and of its last handler invocation      *)
(***************************************************************************)

VARIABLES
  config,         \* the content-scoped fields (backend_name, url, credentials)
  runtime,        \* the runtime the block is bound to
  store,          \* the platform's anonymous-id rows
  fs_class,       \* the instance attribute set by _init_fs_class
  called,         \* the handler of the last invocation
  data,           \* its request
  token,          \* the token endpoint's reply to it, NoReply if none was asked
  log,            \* what it did, in program order
  response,       \* what it returned or raised
  twin_response   \* what it returns with the other credentials stored

vars == <<config, runtime, store, fs_class, called, data, token, log,
          response, twin_response>>

NoOutcome == [raised |-> None, value |-> NoValue]

Init ==
  /\ config \in Configs
  /\ runtime \in Runtimes
  /\ store \in Stores
  /\ fs_class = NoAdapter
  /\ called = None
  /\ data = [type |-> "dict", value |-> << >>]
  /\ token = NoReply
  /\ log = << >>
  /\ response = NoOutcome
  /\ twin_response = NoOutcome

HttpCalls(l) == { i \in 1..Len(l) : l[i].kind = "http" }

\* One invocation of a handler: the request d arrives in a studio or an LMS
\* runtime, the token endpoint would answer reply and the adapter would
\* answer adapter_result.
Invoke(name, op, d, studio, reply, adapter_result) ==
  /\ \E rt \in {[runtime EXCEPT !.is_author_mode = studio]} :
     \E r \in {handler(op, config, rt, store, d, reply, adapter_result,
                       Earlier(fs_class))} :
     \E twin \in {handler(op, OtherCredentials(config), rt, store, d, reply,
                          adapter_result, Earlier(fs_class))} :
       /\ runtime' = rt
       /\ fs_class' = r.fs_class
       /\ log' = r.log
       /\ response' = r.out
       /\ twin_response' = twin.out
       /\ token' = IF HttpCalls(r.log) /= {} THEN reply ELSE NoReply
  /\ called' = name
  /\ data' = d
  /\ UNCHANGED <<config, store>>

send_crm_data(d, studio, reply, adapter_result) ==
  Invoke("send_crm_data", "validate", d, studio, reply, adapter_result)

delete_crm_data(d, studio, reply, adapter_result) ==
  Invoke("delete_crm_data", "_delete_data", d, studio, reply, adapter_result)

\* The environment answers only what it is asked: the token endpoint replies
\* when the handler posts to it, the adapter when an operation is dispatched.
AsksToken(op, d, studio) ==
  LET rt == [runtime EXCEPT !.is_author_mode = studio]
      r == handler(op, config, rt, store, d, NoReply, NoValue, Earlier(fs_class))
  IN  HttpCalls(r.log) /= {}

Dispatches(op, d, studio, reply) ==
  LET rt == [runtime EXCEPT !.is_author_mode = studio]
      r == handler(op, config, rt, store, d, reply, NoValue, Earlier(fs_class))
  IN  \E i \in 1..Len(r.log) : r.log[i].kind = "dispatch"

RepliesTo(op, d, studio) ==
  IF AsksToken(op, d, studio) THEN TokenReplies ELSE {NoReply}

ResultsOf(op, d, studio, reply) ==
  IF Dispatches(op, d, studio, reply) THEN AdapterResults ELSE {NoValue}

Next ==
  \/ \E d \in Requests, studio \in BOOLEAN :
          \E reply \in RepliesTo("validate", d, studio) :
            \E adapter_result \in ResultsOf("validate", d, studio, reply) :
              send_crm_data(d, studio, reply, adapter_result)
  \/ \E d \in Requests, studio \in BOOLEAN :
          \E reply \in RepliesTo("_delete_data", d, studio) :
            \E adapter_result \in ResultsOf("_delete_data", d, studio, reply) :
              delete_crm_data(d, studio, reply, adapter_result)

Spec == Init /\ [][Next]_vars

TypeOK ==
  /\ config \in Configs
  /\ data \in Requests
  /\ response.raised \in {None, "AttributeError", "KeyError", "JSONDecodeError",
                          "ConnectionError", "MultipleObjectsReturned"}

(***************************************************************************)
(* The identity helper on its own: get_anonymous_id_comp_crm called in any *)
(* session against any store.                                              *)
(***************************************************************************)

InitIdentity ==
  /\ config \in { c \in Configs : c.backend_name = "generic" }
  /\ runtime \in AllRuntimes
  /\ store \in AllStores
  /\ fs_class = NoAdapter
  /\ called = None
  /\ data = [type |-> "dict", value |-> << >>]
  /\ token = NoReply
  /\ log = << >>
  /\ response = NoOutcome
  /\ twin_response = NoOutcome

resolve_identity ==
  /\ called = None
  /\ \E r \in {get_anonymous_id_comp_crm(runtime, store, << >>)} :
       /\ log' = r.log
       /\ response' = [raised |-> r.raised, value |-> r.value]
       /\ twin_response' = [raised |-> r.raised, value |-> r.value]
  /\ called' = "get_anonymous_id_comp_crm"
  /\ UNCHANGED <<config, runtime, store, fs_class, data, token>>

NextIdentity == resolve_identity

SpecIdentity == InitIdentity /\ [][NextIdentity]_vars

(***************************************************************************)
(* What the claims speak of, read off the last invocation                  *)
(***************************************************************************)

\* A handler has run.
Ran == called \in {"send_crm_data", "delete_crm_data"}

\* Positions in the trace of the last invocation.
Entries(kind) == { i \in 1..Len(log) : log[i].kind = kind }

\* The content of the request, whichever form it came in.
Content == IF data.type = "str" THEN json_loads(data.value) ELSE data.value

\* The request asks to skip, or the runtime is an authoring one.
SkipRequested == runtime.is_author_mode \/ Get(Content, "no_init", PyFalse) = PyTrue

\* The token endpoint answered the last invocation.
TokenAnswered == token /= NoReply /\ token.raised = None

\* The handler returned the value v.
Returned(v) == response.raised = None /\ response.value = v

SameOutcome(a, b) ==
  /\ a.raised = b.raised
  /\ a.raised = None => a.value = b.value

\* The values of the stored credentials, and what is derived from them.
Secrets ==
  { config[f] : f \in CredentialFields } \cup AccessTokens
  \cup { config.password \o config.security_token }

(***************************************************************************)
(* Claims                                                                  *)
(***************************************************************************)

\* C1: whenever a handler is invoked with no_init true in the request or in
\* an authoring runtime, it returns exactly the 204 "No initialization has
\* been run. Token not generated" envelope, and the invocation makes no HTTP
\* call, constructs no adapter and dispatches none.
C1_SkipReturnsNoInitEnvelope ==
  (Ran /\ SkipRequested) =>
    /\ Returned([status_code |-> 204,
                 message |-> "No initialization has been run. Token not generated",
                 success |-> FALSE])
    /\ Entries("http") = {}
    /\ Entries("construct") = {}
    /\ Entries("dispatch") = {}

\* For requests that arrive as a mapping the statement of C1 holds.
SkipReturnsNoInitEnvelopeForMappings ==
  data.type = "dict" => C1_SkipReturnsNoInitEnvelope

\* C2: whenever the token endpoint answers an invocation with a status other
\* than 200, the handler returns that status with success false and the
\* message "Token not generated", and the invocation constructs no adapter.
C2_TokenFailureEnvelope ==
  (Ran /\ TokenAnswered /\ token.status_code /= 200) =>
    /\ Returned([status_code |-> token.status_code,
                 message |-> "Token not generated",
                 success |-> FALSE])
    /\ Entries("construct") = {}
    /\ Entries("dispatch") = {}
    /\ fs_class.made_in /= "this"

\* C2 witness: the endpoint answered 401 while an adapter of an earlier
\* invocation was on the instance.
C2_Witness ==
  /\ Ran /\ TokenAnswered /\ token.status_code = 401
  /\ response.raised = None
  /\ fs_class.made_in = "earlier"

\* C3: an adapter operation is dispatched only in an invocation whose own
\* token exchange answered 200, and only on the adapter that this invocation
\* constructed from this invocation's access token; an adapter left by an
\* earlier invocation is never dispatched.
C3_DispatchOnlyOwnAdapter ==
  \A i \in Entries("dispatch") :
    /\ TokenAnswered /\ token.status_code = 200
    /\ log[i].adapter.made_in = "this"
    /\ log[i].adapter.access_token = json_loads(token.text)["access_token"]
    /\ \E j \in Entries("construct") : j < i /\ log[j].adapter = log[i].adapter

\* C3 witnesses: an invocation that failed at the token endpoint, or was
\* skipped, with an earlier adapter still on the instance, and one that
\* dispatched.
C3_Witness ==
  /\ Ran
  /\ fs_class.made_in = "earlier"
  /\ Entries("dispatch") = {}
  /\ TokenAnswered /\ token.status_code = 401

C3_WitnessDispatch ==
  /\ Ran
  /\ Entries("dispatch") /= {}
  /\ fs_class.made_in = "this"

\* C4: on each expected failure path (initialisation skipped, token status
\* other than 200, configured backend name not in the registry, failure
\* inside the adapter's operation) the handler raises nothing and returns
\* an envelope with a status code and success false.
ExpectedFailure ==
  \/ \E i \in Entries("emit") :
       log[i].name = "crm_integration_xblock.initialization.no_init"
  \/ TokenAnswered /\ token.status_code /= 200
  \/ /\ config.backend_name \notin BACKENDS
     /\ Entries("identity") /= {}
  \/ \E i \in Entries("dispatch") : ~log[i].result.success

C4_FailuresReturnEnvelope ==
  (Ran /\ ExpectedFailure) =>
    /\ response.raised = None
    /\ {"status_code", "success"} \subseteq DOMAIN response.value
    /\ response.value.success = FALSE

\* The paths of C4 other than the unregistered backend name do return such
\* an envelope.
OtherFailuresReturnEnvelope ==
  config.backend_name \in BACKENDS => C4_FailuresReturnEnvelope

\* C5: what the handler returns does not depend on the stored credentials:
\* with the other credentials stored and the same request, token reply and
\* adapter result it returns the same, and an envelope the proxy builds
\* itself carries no credential and no access token.
C5_NoCredentialInResponse ==
  Ran =>
    /\ SameOutcome(response, twin_response)
    /\ (response.raised = None /\ Entries("dispatch") = {}) =>
         /\ DOMAIN response.value = {"status_code", "message", "success"}
         /\ response.value.message \notin Secrets

\* C5 witness: the proxy built the token-failure envelope.
C5_Witness ==
  /\ Ran /\ TokenAnswered /\ token.status_code = 401
  /\ response.raised = None
  /\ twin_response.raised = None
  /\ response.value.message = "Token not generated"

\* C6: when the token endpoint answers 200 with access_token and
\* instance_url and the backend name is registered, the invocation
\* constructs exactly one adapter, from exactly that token and url, the
\* resolved identity and the request's method and initial payload, dispatches
\* the handler's operation on it once, and returns what the adapter returned.
ResolvedIdentity ==
  LET rows == { r \in store : /\ r.user = runtime.anonymous_student_id.of
                              /\ r.course_id = runtime.course_id \o "_CRM_XBLOCK" }
  IN  IF rows = {} THEN runtime.anonymous_student_id
      ELSE (CHOOSE r \in rows : TRUE).anonymous_user_id

TokenGranted ==
  /\ TokenAnswered /\ token.status_code = 200 /\ token.text.json
  /\ {"access_token", "instance_url"} \subseteq DOMAIN json_loads(token.text)

C6_AdapterBuiltAndResultReturned ==
  (Ran /\ TokenGranted /\ config.backend_name \in BACKENDS) =>
    /\ Cardinality(Entries("construct")) = 1
    /\ Cardinality(Entries("dispatch")) = 1
    /\ \A i \in Entries("construct") :
         /\ log[i].adapter.class = config.backend_name
         /\ log[i].adapter.access_token = json_loads(token.text)["access_token"]
         /\ log[i].adapter.instance_url = json_loads(token.text)["instance_url"]
         /\ log[i].adapter.username = ResolvedIdentity
         /\ log[i].adapter.method = Get(data.value, "method", None)
         /\ log[i].adapter.initial = Get(data.value, "initial", None)
         /\ fs_class = log[i].adapter
         /\ \A j \in Entries("dispatch") :
              /\ i < j
              /\ log[j].adapter = log[i].adapter
              /\ log[j].op = (IF called = "send_crm_data" THEN "validate"
                              ELSE "_delete_data")
              /\ log[j].data = data
              /\ Returned(log[j].result)

\* C6 witness: a request with a method and an initial payload went through
\* to the adapter, which answered.
C6_Witness ==
  /\ Ran /\ TokenGranted
  /\ Entries("dispatch") /= {}
  /\ data.type = "dict"
  /\ {"method", "initial"} \subseteq DOMAIN data.value
  /\ response.raised = None

\* C7: get_anonymous_id_comp_crm returns the anonymous id recorded for the
\* user under the key "<course>_CRM_XBLOCK" when the store has such a row,
\* and otherwise the session's anonymous id; with such a row it never
\* returns the session's id.
C7_CompatIdPreferred ==
  called = "get_anonymous_id_comp_crm" =>
    LET rows == { r \in store : /\ r.user = runtime.anonymous_student_id.of
                                /\ r.course_id = runtime.course_id \o "_CRM_XBLOCK" }
    IN  /\ response.raised = None
        /\ rows = {} => response.value = runtime.anonymous_student_id
        /\ rows /= {} =>
             /\ response.value \in { r.anonymous_user_id : r \in rows }
             /\ response.value /= runtime.anonymous_student_id

\* C7 witness: the user has a compatibility row and the helper answered.
C7_Witness ==
  /\ called = "get_anonymous_id_comp_crm"
  /\ \E r \in store : /\ r.user = runtime.anonymous_student_id.of
                      /\ r.course_id = runtime.course_id \o "_CRM_XBLOCK"
  /\ response.value.kind = "compat"

\* C8: a request given in string-encoded form is handled without a fault and
\* with the outcome of the same request given as a mapping.
C8_StringFormAccepted ==
  (Ran /\ data.type = "str") =>
    /\ response.raised = None
    /\ \E reply \in TokenReplies \cup {NoReply}, result \in AdapterResults :
         SameOutcome(response,
                     handler(IF called = "send_crm_data" THEN "validate"
                             ELSE "_delete_data",
                             config, runtime, store,
                             [type |-> "dict", value |-> json_loads(data.value)],
                             reply, result, fs_class).out)

\* C9: every invocation that is not skipped makes exactly one call to the
\* token endpoint.
C9_OneTokenCall ==
  (Ran /\ ~SkipRequested) => Cardinality(Entries("http")) = 1

\* For requests that arrive as a mapping the statement of C9 holds, whatever
\* the token endpoint or the transport does.
OneTokenCallForMappings ==
  data.type = "dict" => C9_OneTokenCall

\* C10 as stated: in an invocation the identity store is looked up before
\* the token endpoint is contacted, and the token endpoint is contacted
\* before the adapter operation is dispatched.
C10_IdentityBeforeToken ==
  /\ \A i \in Entries("http") : \E j \in Entries("identity") : j < i
  /\ \A i \in Entries("dispatch") : \E j \in Entries("http") : j < i

\* C10 amended: an invocation makes at most one token call, one identity
\* lookup and one dispatch, in the order token exchange, identity lookup,
\* adapter dispatch: the identity store is looked up only after the token
\* endpoint answered 200, and the operation is dispatched only after the
\* lookup.
C10_TokenBeforeIdentity ==
  /\ Cardinality(Entries("http")) <= 1
  /\ Cardinality(Entries("identity")) <= 1
  /\ Cardinality(Entries("dispatch")) <= 1
  /\ \A i \in Entries("identity") :
       /\ \E j \in Entries("http") : j < i
       /\ TokenAnswered /\ token.status_code = 200
  /\ \A i \in Entries("dispatch") : \E j \in Entries("identity") : j < i

\* C10 witness: an invocation went through the whole chain.
C10_Witness ==
  /\ Ran
  /\ Entries("http") /= {}
  /\ Entries("identity") /= {}
  /\ Entries("dispatch") /= {}

====
